---- MODULE Spec2Model ----
(***************************************************************************)
(* A model of DatabaseSynchronizer (src/main.py): the schema phase, the    *)
(* two data-reconciliation phases and the record differ / upsert helpers,  *)
(* run against a small relational model of the two PostgreSQL databases.   *)
(*                                                                         *)
(* Python values are modelled as follows.                                  *)
(*   dict            a sequence of <<key, value>> pairs with distinct keys *)
(*                   (insertion order is iteration order)                  *)
(*   list            a sequence                                            *)
(*   None / SQL NULL the value None, which is outside every value domain   *)
(*   an SQL string   a record [op |-> ..., ...] holding the parts the      *)
(*                   f-string is built from, in the order it names them    *)
(*   an exception    the flag `raised` of the connection context: once it  *)
(*                   is set every later step of the handler is skipped     *)
(***************************************************************************)
EXTENDS Integers, Sequences, FiniteSets, TLC

VARIABLES
    pc,      \* position of the driver (phase of synchronize, or "idle")
    test,    \* the test (source) database: a sequence of tables
    prod,    \* the prod (target) database as committed between handlers
    calls    \* history: one record per handler call that has returned

vars == <<pc, test, prod, calls>>

----------------------------------------------------------------------------
(* Bounds of the model.                                                    *)

\* most columns of a table in an initial schema
MaxCols == 2
\* most rows of a table in an initial database, and most records of a list
MaxRecords == 2
\* most handler calls of one behaviour of the stand-alone specifications
MaxCalls == 2

----------------------------------------------------------------------------
(* Python dicts and lists.                                                 *)

\* Python's None (the result of dict.get on a missing key, an SQL NULL)
None == 0

Range(s) == {s[i] : i \in 1..Len(s)}

\* list(d.keys())
Keys(d) == [i \in 1..Len(d) |-> d[i][1]]

\* list(d.values())
Values(d) == [i \in 1..Len(d) |-> d[i][2]]

\* k in d
Has(d, k) == \E i \in 1..Len(d) : d[i][1] = k

\* d[k], for a key that is present
Item(d, k) == d[CHOOSE i \in 1..Len(d) : d[i][1] = k][2]

\* d.get(k)
Get(d, k) == IF Has(d, k) THEN Item(d, k) ELSE None

\* dict(zip(columns, row))
Zip(columns, row) ==
    [i \in 1..(IF Len(columns) < Len(row) THEN Len(columns) ELSE Len(row))
        |-> <<columns[i], row[i]>>]

\* [x for x in s if Test(x)]
Filter(s, Test(_)) == SelectSeq(s, Test)

\* s.index(x) + 1, for an x that is in s
Pos(names, name) == CHOOSE i \in 1..Len(names) : names[i] = name

\* the sequences over S of length at most n
SeqsUpTo(S, n) == UNION {[1..k -> S] : k \in 0..n}

NoRepeat(s) == \A i, j \in 1..Len(s) : s[i] = s[j] => i = j

----------------------------------------------------------------------------
(* The databases.  A database is the sequence of its base tables in        *)
(* catalog order; a table has a name, its columns in ordinal position      *)
(* (name, information_schema data_type) and its rows (one value per        *)
(* column).                                                                *)

TableNamesOf(db) == [i \in 1..Len(db) |-> db[i].name]

HasTable(db, t) == \E i \in 1..Len(db) : db[i].name = t

TableIdx(db, t) == CHOOSE i \in 1..Len(db) : db[i].name = t

Table(db, t) == db[TableIdx(db, t)]

\* The data_type the catalog reports for a column declared with the DDL
\* type `ddl`; "?" when PostgreSQL rejects the declaration.
CatalogType(ddl) ==
    CASE ddl = "SERIAL PRIMARY KEY" -> "integer"
      [] ddl = "INTEGER"            -> "integer"
      [] ddl = "VARCHAR(100)"       -> "character varying"
      [] ddl = "VARCHAR(255)"       -> "character varying"
      [] ddl = "BOOLEAN"            -> "boolean"
      [] ddl = "TEXT"               -> "text"
      [] OTHER                      -> "?"

\* The effect of one statement on a database: [ok, db].  A statement that
\* PostgreSQL rejects (unknown table or column, duplicate name, unknown
\* type, empty column list, more or fewer values than placeholders) leaves
\* the database as it was.  An UPDATE changes the rows its WHERE clause
\* selects (id = the last value; NULL equals nothing), or every row when it
\* has none.
Reject(db) == [ok |-> FALSE, db |-> db]

Accept(db) == [ok |-> TRUE, db |-> db]

ApplyCreateTable(db, stmt) ==
    IF \/ HasTable(db, stmt.table)
       \/ ~NoRepeat(Keys(stmt.columns))
       \/ \E i \in 1..Len(stmt.columns) : CatalogType(stmt.columns[i][2]) = "?"
    THEN Reject(db)
    ELSE Accept(Append(db,
            [name    |-> stmt.table,
             columns |-> [i \in 1..Len(stmt.columns) |->
                            <<stmt.columns[i][1], CatalogType(stmt.columns[i][2])>>],
             rows    |-> <<>>]))

ApplyAddColumn(db, stmt) ==
    IF \/ ~HasTable(db, stmt.table)
       \/ CatalogType(stmt.type) = "?"
    THEN Reject(db)
    ELSE LET i == TableIdx(db, stmt.table)
             t == db[i]
         IN  IF Has(t.columns, stmt.column)
             THEN Reject(db)
             ELSE Accept([db EXCEPT ![i] =
                    [t EXCEPT !.columns = Append(@, <<stmt.column, CatalogType(stmt.type)>>),
                              !.rows = [r \in 1..Len(t.rows) |-> Append(t.rows[r], None)]]])

ApplyAlterColumnType(db, stmt) ==
    IF \/ ~HasTable(db, stmt.table)
       \/ CatalogType(stmt.type) = "?"
    THEN Reject(db)
    ELSE LET i == TableIdx(db, stmt.table)
             t == db[i]
         IN  IF ~Has(t.columns, stmt.column)
             THEN Reject(db)
             ELSE Accept([db EXCEPT ![i].columns =
                    [c \in 1..Len(t.columns) |->
                        IF t.columns[c][1] = stmt.column
                        THEN <<stmt.column, CatalogType(stmt.type)>>
                        ELSE t.columns[c]]])

\* the sequence s without its i-th element
Without(s, i) == [j \in 1..(Len(s) - 1) |-> IF j < i THEN s[j] ELSE s[j + 1]]

ApplyDropColumn(db, stmt) ==
    IF ~HasTable(db, stmt.table)
    THEN Reject(db)
    ELSE LET i == TableIdx(db, stmt.table)
             t == db[i]
         IN  IF ~Has(t.columns, stmt.column)
             THEN Reject(db)
             ELSE LET p == Pos(Keys(t.columns), stmt.column)
                  IN  Accept([db EXCEPT ![i] =
                        [t EXCEPT !.columns = Without(@, p),
                                  !.rows = [r \in 1..Len(t.rows) |-> Without(t.rows[r], p)]]])

ApplyInsert(db, stmt) ==
    IF ~HasTable(db, stmt.table)
    THEN Reject(db)
    ELSE LET i == TableIdx(db, stmt.table)
             t == db[i]
             cols == Keys(t.columns)
         IN  IF \/ Len(stmt.columns) = 0
                \/ ~NoRepeat(stmt.columns)
                \/ ~(Range(stmt.columns) \subseteq Range(cols))
             THEN Reject(db)
             ELSE Accept([db EXCEPT ![i].rows = Append(@,
                    [c \in 1..Len(cols) |->
                        IF cols[c] \in Range(stmt.columns)
                        THEN stmt.values[Pos(stmt.columns, cols[c])]
                        ELSE None])])

ApplyUpdate(db, stmt) ==
    IF ~HasTable(db, stmt.table)
    THEN Reject(db)
    ELSE LET i == TableIdx(db, stmt.table)
             t == db[i]
             cols == Keys(t.columns)
             key == stmt.values[Len(stmt.values)]
             Matches(row) ==
                stmt.where = "id" => (key # None /\ row[Pos(cols, "id")] = key)
         IN  IF \/ stmt.where = "id" /\ ~("id" \in Range(cols))
                \/ Len(stmt.set) = 0
                \/ Len(stmt.values) # Len(stmt.set) + (IF stmt.where = "id" THEN 1 ELSE 0)
                \/ ~NoRepeat(stmt.set)
                \/ ~(Range(stmt.set) \subseteq Range(cols))
             THEN Reject(db)
             ELSE Accept([db EXCEPT ![i].rows =
                    [r \in 1..Len(t.rows) |->
                        IF Matches(t.rows[r])
                        THEN [c \in 1..Len(cols) |->
                                IF cols[c] \in Range(stmt.set)
                                THEN stmt.values[Pos(stmt.set, cols[c])]
                                ELSE t.rows[r][c]]
                        ELSE t.rows[r]]])

ApplySelect(db, stmt) ==
    IF HasTable(db, stmt.table) THEN Accept(db) ELSE Reject(db)

Apply(db, stmt) ==
    CASE stmt.op = "CREATE TABLE"      -> ApplyCreateTable(db, stmt)
      [] stmt.op = "ADD COLUMN"        -> ApplyAddColumn(db, stmt)
      [] stmt.op = "ALTER COLUMN TYPE" -> ApplyAlterColumnType(db, stmt)
      [] stmt.op = "DROP COLUMN"       -> ApplyDropColumn(db, stmt)
      [] stmt.op = "INSERT"            -> ApplyInsert(db, stmt)
      [] stmt.op = "UPDATE"            -> ApplyUpdate(db, stmt)
      [] stmt.op = "SELECT *"          -> ApplySelect(db, stmt)
      [] OTHER                         -> Accept(db)

----------------------------------------------------------------------------
(* The connection context of one handler: the prod connection's working    *)
(* state (db), what it has committed, the events issued on it (log), the   *)
(* number of data-changing statements executed so far (count), the one     *)
(* the server rejects for a reason the model does not compute, such as a   *)
(* constraint, a cast or a timeout (faultAt, 0 for none), and whether an   *)
(* exception is propagating (raised); plans holds what the record differ   *)
(* computed, per table.  The queries of _get_tables, _get_table_columns    *)
(* and load_reference_data only read: they are logged, and rejected only   *)
(* when the table they read does not exist.                                *)

Connect(db, faultAt) ==
    [db |-> db, committed |-> db, log |-> <<>>, count |-> 0,
     faultAt |-> faultAt, raised |-> FALSE, plans |-> <<>>]

\* with conn.cursor() as cursor:
cursor(c) ==
    IF c.raised THEN c
    ELSE [c EXCEPT !.log = Append(@, [op |-> "CURSOR"])]

\* cursor.execute(stmt) on the prod connection
execute(c, stmt) ==
    IF c.raised THEN c
    ELSE LET n == c.count + 1
             res == Apply(c.db, stmt)
         IN  IF n = c.faultAt \/ ~res.ok
             THEN [c EXCEPT !.count = n, !.log = Append(@, stmt), !.raised = TRUE]
             ELSE [c EXCEPT !.count = n, !.log = Append(@, stmt), !.db = res.db]

\* cursor.execute(query) of a query that only reads, on the prod connection
query(c, stmt) ==
    IF c.raised THEN c
    ELSE IF Apply(c.db, stmt).ok
         THEN [c EXCEPT !.log = Append(@, stmt)]
         ELSE [c EXCEPT !.log = Append(@, stmt), !.raised = TRUE]

\* conn.commit() that records the call and makes nothing durable (one
\* transaction for the whole connection)
commit_deferred(c) ==
    IF c.raised THEN c
    ELSE [c EXCEPT !.log = Append(@, [op |-> "COMMIT"])]

\* conn.commit()
commit(c) ==
    IF c.raised THEN c
    ELSE [c EXCEPT !.committed = c.db, !.log = Append(@, [op |-> "COMMIT"])]

\* a read of the test connection: raises when the statement is rejected
test_execute(c, testdb, stmt) ==
    IF c.raised \/ Apply(testdb, stmt).ok THEN c
    ELSE [c EXCEPT !.raised = TRUE]

\* leaving `with ... as prod_conn:` commits, or rolls back on an exception
connection_exit(c) ==
    IF c.raised THEN [c EXCEPT !.db = c.committed]
    ELSE [c EXCEPT !.committed = c.db]

----------------------------------------------------------------------------
(* Schema inspection and the schema phase.                                 *)

\* _get_tables: the table names the catalog query returns
_get_tables(db) == TableNamesOf(db)

\* _get_table_columns: {column_name: data_type}, empty for an unknown table
_get_table_columns(db, table_name) ==
    IF HasTable(db, table_name) THEN Table(db, table_name).columns ELSE <<>>

\* str.upper() on the type tags of the model
Upper(s) ==
    CASE s = "text"              -> "TEXT"
      [] s = "integer"           -> "INTEGER"
      [] s = "boolean"           -> "BOOLEAN"
      [] s = "character varying" -> "CHARACTER VARYING"
      [] OTHER                   -> s

\* _get_tables on the prod connection: the cursor and the query it issues
_get_tables_query(c) == query(cursor(c), [op |-> "SELECT table_name"])

\* _get_table_columns on the prod connection: the cursor and its query
_get_table_columns_query(c, table_name) ==
    query(cursor(c), [op |-> "SELECT column_name", table |-> table_name])

_map_type_to_postgres(data_type) ==
    IF data_type = "character varying" THEN "VARCHAR(255)"
    ELSE IF data_type = "integer" THEN "INTEGER"
    ELSE IF data_type = "boolean" THEN "BOOLEAN"
    ELSE Upper(data_type)

\* the f-string of _get_create_table_ddl: the test connection is not read
_get_create_table_ddl(testdb, table_name) ==
    [op |-> "CREATE TABLE", table |-> table_name,
     columns |-> << <<"id", "SERIAL PRIMARY KEY">>,
                    <<"dummy_field", "VARCHAR(100)">> >>]

_add_column(c, table_name, column_name, column_type) ==
    commit(execute(cursor(c),
        [op |-> "ADD COLUMN", table |-> table_name, column |-> column_name,
         type |-> _map_type_to_postgres(column_type)]))

_alter_column_type(c, table_name, column_name, column_type) ==
    commit(execute(cursor(c),
        [op |-> "ALTER COLUMN TYPE", table |-> table_name, column |-> column_name,
         type |-> _map_type_to_postgres(column_type)]))

\* the body of the loop without its else branch: missing columns are
\* added, types are left alone
SyncColumnAddOnly(c, table_name, prod_columns, col_name, col_type) ==
    IF ~Has(prod_columns, col_name)
    THEN _add_column(c, table_name, col_name, col_type)
    ELSE c

\* the body of the loop of _sync_table_structure for one source column
SyncColumn(c, table_name, prod_columns, col_name, col_type) ==
    IF ~Has(prod_columns, col_name)
    THEN _add_column(c, table_name, col_name, col_type)
    ELSE LET prod_type == Item(prod_columns, col_name)
         IN  IF col_type # prod_type
             THEN _alter_column_type(c, table_name, col_name, col_type)
             ELSE c

\* for col_name, col_type in test_columns.items(): ...
RECURSIVE SyncColumns(_, _, _, _)
SyncColumns(c, table_name, prod_columns, items) ==
    IF items = <<>> THEN c
    ELSE SyncColumns(
            SyncColumn(c, table_name, prod_columns, Head(items)[1], Head(items)[2]),
            table_name, prod_columns, Tail(items))

\* for col_name in prod_columns: drop it when the test table lacks it
RECURSIVE DropExtra(_, _, _, _)
DropExtra(c, table_name, test_columns, names) ==
    IF names = <<>> THEN c
    ELSE DropExtra(
            IF Has(test_columns, Head(names)) THEN c
            ELSE commit(execute(cursor(c),
                    [op |-> "DROP COLUMN", table |-> table_name,
                     column |-> Head(names)])),
            table_name, test_columns, Tail(names))

\* _sync_table_structure written to make the prod table equal to the test
\* table: it also drops the columns only prod has
_sync_table_structure_mirror(c, testdb, table_name) ==
    LET test_columns == _get_table_columns(testdb, table_name)
        prod_columns == _get_table_columns(c.db, table_name)
        c1 == _get_table_columns_query(c, table_name)
        c2 == SyncColumns(c1, table_name, prod_columns, test_columns)
    IN  DropExtra(c2, table_name, test_columns, Keys(prod_columns))

_sync_table_structure(c, testdb, table_name) ==
    LET test_columns == _get_table_columns(testdb, table_name)
        prod_columns == _get_table_columns(c.db, table_name)
        c1 == _get_table_columns_query(c, table_name)
    IN  SyncColumns(c1, table_name, prod_columns, test_columns)

\* for table_name in missing_tables: create it and commit
RECURSIVE CreateMissing(_, _, _)
CreateMissing(c, testdb, missing_tables) ==
    IF missing_tables = <<>> THEN c
    ELSE LET create_ddl == _get_create_table_ddl(testdb, Head(missing_tables))
         IN  CreateMissing(commit(execute(cursor(c), create_ddl)),
                           testdb, Tail(missing_tables))

\* for table_name in common_tables: self._sync_table_structure(...)
RECURSIVE SyncCommon(_, _, _)
SyncCommon(c, testdb, common_tables) ==
    IF common_tables = <<>> THEN c
    ELSE SyncCommon(_sync_table_structure(c, testdb, Head(common_tables)),
                    testdb, Tail(common_tables))

\* t in a list of table names
InList(t, names) == t \in Range(names)

MissingTables(test_tables, prod_tables) ==
    LET Missing(t) == ~InList(t, prod_tables) IN Filter(test_tables, Missing)

CommonTables(test_tables, prod_tables) ==
    LET Common(t) == InList(t, prod_tables) IN Filter(test_tables, Common)

sync_schema(c, testdb) ==
    LET test_tables == _get_tables(testdb)
        prod_tables == _get_tables(c.db)
        c1 == _get_tables_query(c)
        missing_tables == MissingTables(test_tables, prod_tables)
        c2 == CreateMissing(c1, testdb, missing_tables)
        common_tables == CommonTables(test_tables, prod_tables)
        c3 == SyncCommon(c2, testdb, common_tables)
    IN  connection_exit(c3)

----------------------------------------------------------------------------
(* Record loading, the record differ and the upsert executor.              *)

\* load_reference_data: the rows of the table as dicts keyed by column name
load_reference_data(db, table_name) ==
    IF HasTable(db, table_name)
    THEN LET t == Table(db, table_name)
         IN  [r \in 1..Len(t.rows) |-> Zip(Keys(t.columns), t.rows[r])]
    ELSE <<>>

\* load_reference_data on the prod connection: the cursor and its SELECT
load_reference_data_query(c, table_name) ==
    query(cursor(c), [op |-> "SELECT *", table |-> table_name])

\* {rec['id'] for rec in prod_records if 'id' in rec}
ProdIds(prod_records) ==
    {Item(prod_records[i], "id") :
        i \in {j \in 1..Len(prod_records) : Has(prod_records[j], "id")}}

calculate_inserts(test_records, prod_records) ==
    LET prod_ids == ProdIds(prod_records)
        Absent(r) == Get(r, "id") \notin prod_ids
    IN  Filter(test_records, Absent)

\* prod_dict[k] of {rec['id']: rec for rec in prod_records if 'id' in rec}:
\* the last record with that id
ProdDict(prod_records, k) ==
    LET last == CHOOSE i \in 1..Len(prod_records) :
                    /\ Has(prod_records[i], "id")
                    /\ Item(prod_records[i], "id") = k
                    /\ \A j \in (i + 1)..Len(prod_records) :
                        ~(Has(prod_records[j], "id") /\ Item(prod_records[j], "id") = k)
    IN  prod_records[last]

\* the inner loop with == for !=: some common field has the same value
DifferentFieldsInverted(test_rec, prod_rec) ==
    \E i \in 1..Len(test_rec) :
        LET k == test_rec[i][1]
            v == test_rec[i][2]
        IN  /\ k # "id"
            /\ Has(prod_rec, k)
            /\ Item(prod_rec, k) = v

\* the inner loop with prod_rec.get(k) != v: a field prod_rec lacks counts
\* as different
DifferentFieldsOrMissing(test_rec, prod_rec) ==
    \E i \in 1..Len(test_rec) :
        LET k == test_rec[i][1]
            v == test_rec[i][2]
        IN  /\ k # "id"
            /\ Get(prod_rec, k) # v

\* the inner loop of calculate_updates: some field of test_rec other than
\* 'id' is in prod_rec with another value
DifferentFields(test_rec, prod_rec) ==
    \E i \in 1..Len(test_rec) :
        LET k == test_rec[i][1]
            v == test_rec[i][2]
        IN  /\ k # "id"
            /\ Has(prod_rec, k)
            /\ Item(prod_rec, k) # v

calculate_updates(test_records, prod_records) ==
    LET Differs(test_rec) ==
            LET test_id == Get(test_rec, "id")
            IN  /\ test_id \in ProdIds(prod_records)
                /\ DifferentFields(test_rec, ProdDict(prod_records, test_id))
    IN  Filter(test_records, Differs)

\* the INSERT of one record: its keys, and its values bound in that order
\* the INSERT without the record's id (the key left to the table's sequence)
InsertStatementNoId(table_name, record) ==
    LET NotId(item) == item[1] # "id"
    IN  [op |-> "INSERT", table |-> table_name,
         columns |-> Keys(SelectSeq(record, NotId)),
         values |-> Values(SelectSeq(record, NotId))]

InsertStatement(table_name, record) ==
    [op |-> "INSERT", table |-> table_name,
     columns |-> Keys(record), values |-> Values(record)]

\* for record in records: cursor.execute(INSERT ...)
RECURSIVE InsertLoop(_, _, _)
InsertLoop(c, table_name, records) ==
    IF records = <<>> THEN c
    ELSE InsertLoop(execute(c, InsertStatement(table_name, Head(records))),
                    table_name, Tail(records))

\* insert_records with the commit inside the loop: one commit per record
RECURSIVE InsertCommitLoop(_, _, _)
InsertCommitLoop(c, table_name, records) ==
    IF records = <<>> THEN c
    ELSE InsertCommitLoop(
            commit(execute(c, InsertStatement(table_name, Head(records)))),
            table_name, Tail(records))

insert_records_commit_each(c, table_name, records) ==
    IF records = <<>> THEN c
    ELSE InsertCommitLoop(cursor(c), table_name, records)

insert_records(c, table_name, records) ==
    IF records = <<>> THEN c
    ELSE commit(InsertLoop(cursor(c), table_name, records))

\* the items of a record other than 'id', in order
NonIdItems(record) ==
    LET NotId(kv) == kv[1] # "id" IN SelectSeq(record, NotId)

\* the UPDATE of one record with the id bound first, not last
UpdateStatementIdFirst(table_name, record) ==
    [op |-> "UPDATE", table |-> table_name,
     set |-> Keys(NonIdItems(record)), where |-> "id",
     values |-> <<Item(record, "id")>> \o Values(NonIdItems(record))]

\* the UPDATE of one record without its WHERE clause
UpdateStatementNoWhere(table_name, record) ==
    [op |-> "UPDATE", table |-> table_name,
     set |-> Keys(NonIdItems(record)), where |-> "",
     values |-> Values(NonIdItems(record))]

\* the UPDATE of one record: SET every field but 'id', WHERE id = %s; the
\* values are those of the SET clause followed by the id
UpdateStatement(table_name, record) ==
    [op |-> "UPDATE", table |-> table_name,
     set |-> Keys(NonIdItems(record)), where |-> "id",
     values |-> Append(Values(NonIdItems(record)), Item(record, "id"))]

\* for record in records: skip it without 'id' or without another field,
\* else cursor.execute(UPDATE ...)
RECURSIVE UpdateLoop(_, _, _)
UpdateLoop(c, table_name, records) ==
    IF records = <<>> THEN c
    ELSE LET record == Head(records)
         IN  UpdateLoop(
                IF ~Has(record, "id") THEN c
                ELSE IF NonIdItems(record) = <<>> THEN c
                ELSE execute(c, UpdateStatement(table_name, record)),
                table_name, Tail(records))

update_records(c, table_name, records) ==
    IF records = <<>> THEN c
    ELSE commit(UpdateLoop(cursor(c), table_name, records))

\* the reconciliation of one table, as sync_reference_tables and sync_data
\* both write it: load both sides, compute the plan, insert, update
Reconcile(c, testdb, table_name) ==
    LET c1 == test_execute(c, testdb, [op |-> "SELECT *", table |-> table_name])
        test_records == load_reference_data(testdb, table_name)
        c2 == load_reference_data_query(c1, table_name)
        prod_records == load_reference_data(c.db, table_name)
        to_insert == calculate_inserts(test_records, prod_records)
        to_update == calculate_updates(test_records, prod_records)
        c3 == IF c2.raised THEN c2
              ELSE [c2 EXCEPT !.plans = Append(@,
                        [table |-> table_name,
                         to_insert |-> to_insert,
                         to_update |-> to_update])]
        c4 == insert_records(c3, table_name, to_insert)
    IN  update_records(c4, table_name, to_update)

reference_tables == <<"some_ref_table">>

\* for ref_table in reference_tables: ...
RECURSIVE ReconcileAll(_, _, _)
ReconcileAll(c, testdb, tables) ==
    IF tables = <<>> THEN c
    ELSE ReconcileAll(Reconcile(c, testdb, Head(tables)), testdb, Tail(tables))

sync_reference_tables(c, testdb) ==
    connection_exit(ReconcileAll(c, testdb, reference_tables))

sync_data(c, testdb) ==
    connection_exit(Reconcile(c, testdb, "orders"))

----------------------------------------------------------------------------
(* The record of a handler call, kept in `calls`.                          *)

Call(name, args, before, c) ==
    [op |-> name, args |-> args, before |-> before,
     log |-> c.log, plans |-> c.plans, raised |-> c.raised,
     faulted |-> c.raised /\ c.count = c.faultAt]

\* the prod database as call i left it
After(i) == IF i = Len(calls) THEN prod ELSE calls[i + 1].before

\* The statements the server may reject for a reason of its own in the next
\* call: none (0), or any one of those the handler issues when none is
\* rejected (c is that run).  A behaviour holds at most one such rejection;
\* the rejections the model computes (unknown table, column or type) recur
\* in every call that meets them.
Faults(c) ==
    IF \E i \in 1..Len(calls) : calls[i].faulted THEN {0} ELSE 0..c.count

----------------------------------------------------------------------------
(* SchemaSpec: sync_schema called up to MaxCalls times on a pair of        *)
(* schemas.                                                                *)

TableNames == <<"some_ref_table", "orders">>

\* the columns a table may have besides id, and their types
ExtraColumns == {"dummy_field", "name"}

ExtraTypes == {"character varying", "text"}

\* the column lists of the initial schemas: id first, then other columns
ColumnLists ==
    {<< <<"id", "integer">> >> \o [i \in 1..Len(ns) |-> <<ns[i], ts[i]>>] :
        <<ns, ts>> \in
            {p \in SeqsUpTo(ExtraColumns, MaxCols - 1) \X SeqsUpTo(ExtraTypes, MaxCols - 1) :
                Len(p[1]) = Len(p[2]) /\ NoRepeat(p[1])}}

EmptyTable(name, columns) == [name |-> name, columns |-> columns, rows |-> <<>>]

\* the schemas over TableNames: any tables, in any catalog order
Schemas ==
    {[i \in 1..Len(ns) |-> EmptyTable(ns[i], cs[i])] :
        <<ns, cs>> \in
            {p \in SeqsUpTo(Range(TableNames), Len(TableNames))
                    \X SeqsUpTo(ColumnLists, Len(TableNames)) :
                Len(p[1]) = Len(p[2]) /\ NoRepeat(p[1])}}

\* The tables of s are in the order of TableNames and the columns after id
\* in the order of ExtraColumnOrder.  The schema phase only tests membership
\* in prod_tables and looks prod columns up by name, so the initial prod
\* catalog is taken in one order; the test catalog, whose order the loops
\* follow, in every order.
ExtraColumnOrder == <<"dummy_field", "name">>

CatalogOrdered(s) ==
    /\ \A i, j \in 1..Len(s) :
        i < j => Pos(TableNames, s[i].name) < Pos(TableNames, s[j].name)
    /\ \A t \in 1..Len(s) : \A i, j \in 2..Len(s[t].columns) :
        i < j => Pos(ExtraColumnOrder, s[t].columns[i][1])
                    < Pos(ExtraColumnOrder, s[t].columns[j][1])

SchemaInit ==
    /\ pc = "idle"
    /\ calls = <<>>
    /\ test \in Schemas
    /\ prod \in {s \in Schemas : CatalogOrdered(s)}

CallSyncSchema ==
    /\ pc = "idle"
    /\ Len(calls) < MaxCalls
    /\ \E f \in Faults(sync_schema(Connect(prod, 0), test)) :
        \E c \in {sync_schema(Connect(prod, f), test)} :
            /\ prod' = c.db
            /\ calls' = Append(calls, Call("sync_schema", <<>>, prod, c))
    /\ UNCHANGED <<pc, test>>

SchemaNext == CallSyncSchema

SchemaSpec == SchemaInit /\ [][SchemaNext]_vars

----------------------------------------------------------------------------
(* DataSpec: sync_reference_tables and sync_data called, in any order, up  *)
(* to MaxCalls times on a pair of databases that hold the tables           *)
(* some_ref_table and orders, both with the same columns and rows.         *)

\* identity values: as many as a table may have rows
Ids == 1..MaxRecords

\* values of the field name
Vals == {7, 8}

\* The values a column may hold in an initial database.  In the initial
\* databases desc is a column only prod has: one value shows whether it is
\* kept.
ColumnVals(col) ==
    CASE col = "id"   -> Ids
      [] col = "name" -> Vals
      [] OTHER        -> {9}

\* column names of the test table and of the prod table
ShapePairs ==
    { << <<"id", "name">>, <<"id", "name">> >>,
      << <<"id", "name">>, <<"id", "name", "desc">> >>,
      << <<"id", "name">>, <<"id">> >>,
      << <<"name">>,       <<"id", "name">> >>,
      << <<"id", "name">>, <<"name">> >> }

\* the rows a table with these column names may hold: ids are unique
\* (load_reference_data: the table should have some pk)
RowOf(shape) ==
    {row \in [1..Len(shape) -> UNION {ColumnVals(shape[c]) : c \in 1..Len(shape)}] :
        \A c \in 1..Len(shape) : row[c] \in ColumnVals(shape[c])}

RowsOf(shape) ==
    {rows \in SeqsUpTo(RowOf(shape), MaxRecords) :
        "id" \in Range(shape) =>
            NoRepeat([r \in 1..Len(rows) |-> rows[r][Pos(shape, "id")]])}

\* rows in ascending order of id: the differ indexes prod records by id, so
\* the initial prod rows are taken in one order
Ascending(shape, rows) ==
    "id" \in Range(shape) =>
        \A r \in 1..(Len(rows) - 1) :
            rows[r][Pos(shape, "id")] < rows[r + 1][Pos(shape, "id")]

\* The differ compares a prod value with the test value of the same record
\* for equality and nothing else: the initial prod rows hold one value of
\* name, the test rows that value or another.
Unchanged(shape, rows) ==
    "name" \in Range(shape) =>
        \A r \in 1..Len(rows) : rows[r][Pos(shape, "name")] = 7

DataTable(name, shape, rows) ==
    [name |-> name,
     columns |-> [c \in 1..Len(shape) |-> <<shape[c], "integer">>],
     rows |-> rows]

DataBase(shape, rows) ==
    <<DataTable("some_ref_table", shape, rows), DataTable("orders", shape, rows)>>

DataInit ==
    /\ pc = "idle"
    /\ calls = <<>>
    /\ \E sp \in ShapePairs :
        /\ \E rows \in RowsOf(sp[1]) : test = DataBase(sp[1], rows)
        /\ \E rows \in {r \in RowsOf(sp[2]) : Ascending(sp[2], r) /\ Unchanged(sp[2], r)} :
            prod = DataBase(sp[2], rows)

CallSyncReferenceTables ==
    /\ pc = "idle"
    /\ Len(calls) < MaxCalls
    /\ \E f \in Faults(sync_reference_tables(Connect(prod, 0), test)) :
        \E c \in {sync_reference_tables(Connect(prod, f), test)} :
            /\ prod' = c.db
            /\ calls' = Append(calls, Call("sync_reference_tables", <<>>, prod, c))
    /\ UNCHANGED <<pc, test>>

CallSyncData ==
    /\ pc = "idle"
    /\ Len(calls) < MaxCalls
    /\ \E f \in Faults(sync_data(Connect(prod, 0), test)) :
        \E c \in {sync_data(Connect(prod, f), test)} :
            /\ prod' = c.db
            /\ calls' = Append(calls, Call("sync_data", <<>>, prod, c))
    /\ UNCHANGED <<pc, test>>

DataNext == CallSyncReferenceTables \/ CallSyncData

DataSpec == DataInit /\ [][DataNext]_vars

----------------------------------------------------------------------------
(* UnitSpec: insert_records or update_records called once, as the tests    *)
(* call them, with any list of records on a connection to a database that  *)
(* holds my_table (id, name, desc).                                        *)

\* the key orders of the records passed
RecordShapes ==
    { <<>>, <<"id">>, <<"id", "name">>, <<"name", "id">>,
      <<"id", "name", "desc">>, <<"name">>, <<"name", "desc">> }

Records == UNION {{Zip(shape, row) : row \in RowOf(shape)} : shape \in RecordShapes}

RecordLists == SeqsUpTo(Records, MaxRecords)

UnitInit ==
    /\ pc = "idle"
    /\ calls = <<>>
    /\ test = <<>>
    /\ prod = <<DataTable("my_table", <<"id", "name", "desc">>, <<>>)>>

\* The caller opens no `with` block: what the connection committed stays,
\* and an exception leaves the rest of the transaction unapplied.
CallInsertRecords ==
    /\ pc = "idle"
    /\ calls = <<>>
    /\ \E records \in RecordLists :
        \E f \in Faults(insert_records(Connect(prod, 0), "my_table", records)) :
            \E c \in {insert_records(Connect(prod, f), "my_table", records)} :
                /\ prod' = c.committed
                /\ calls' = Append(calls, Call("insert_records", records, prod, c))
    /\ UNCHANGED <<pc, test>>

CallUpdateRecords ==
    /\ pc = "idle"
    /\ calls = <<>>
    /\ \E records \in RecordLists :
        \E f \in Faults(update_records(Connect(prod, 0), "my_table", records)) :
            \E c \in {update_records(Connect(prod, f), "my_table", records)} :
                /\ prod' = c.committed
                /\ calls' = Append(calls, Call("update_records", records, prod, c))
    /\ UNCHANGED <<pc, test>>

UnitNext == CallInsertRecords \/ CallUpdateRecords

UnitSpec == UnitInit /\ [][UnitNext]_vars

----------------------------------------------------------------------------
(* Spec: one run of synchronize, a phase per step.  pc is the phase the    *)
(* run is about to start, DONE after the last one, ABORTED once an         *)
(* exception has left synchronize.                                         *)

Phases == <<"SCHEMA", "REFERENCE_DATA", "DESIGNATED_DATA">>

PhaseCalls == <<"sync_schema", "sync_reference_tables", "sync_data">>

\* the phase calls wrapped in try/except: the run goes on after a failure
NextPhaseCaught(c, next) == next

\* synchronize calls the phases in a row and catches nothing: an exception
\* from a phase leaves synchronize, otherwise the next call starts
NextPhase(c, next) == IF c.raised THEN "ABORTED" ELSE next

RunShapes == {<<"id", "dummy_field">>, <<"id", "name">>}

RunTable(name, shape, rows) ==
    [name |-> name,
     columns |-> [i \in 1..Len(shape) |->
        <<shape[i], IF shape[i] = "id" THEN "integer" ELSE "character varying">>],
     rows |-> rows]

\* test holds both tables; prod any of them, in catalog order
Init ==
    /\ pc = "SCHEMA"
    /\ calls = <<>>
    /\ \E shape \in RunShapes :
        \E rows \in {r \in RowsOf(shape) : Ascending(shape, r)} :
            test = [i \in 1..Len(TableNames) |-> RunTable(TableNames[i], shape, rows)]
    /\ \E shape \in RunShapes :
        \E rows \in {r \in RowsOf(shape) : Ascending(shape, r)} :
            \E names \in {n \in SeqsUpTo(Range(TableNames), Len(TableNames)) :
                            \A i, j \in 1..Len(n) :
                                i < j => Pos(TableNames, n[i]) < Pos(TableNames, n[j])} :
                prod = [i \in 1..Len(names) |-> RunTable(names[i], shape, rows)]

SyncSchema ==
    /\ pc = "SCHEMA"
    /\ \E f \in Faults(sync_schema(Connect(prod, 0), test)) :
        \E c \in {sync_schema(Connect(prod, f), test)} :
            /\ prod' = c.db
            /\ calls' = Append(calls, Call("sync_schema", <<>>, prod, c))
            /\ pc' = NextPhase(c, "REFERENCE_DATA")
    /\ UNCHANGED test

SyncReferenceTables ==
    /\ pc = "REFERENCE_DATA"
    /\ \E f \in Faults(sync_reference_tables(Connect(prod, 0), test)) :
        \E c \in {sync_reference_tables(Connect(prod, f), test)} :
            /\ prod' = c.db
            /\ calls' = Append(calls, Call("sync_reference_tables", <<>>, prod, c))
            /\ pc' = NextPhase(c, "DESIGNATED_DATA")
    /\ UNCHANGED test

SyncData ==
    /\ pc = "DESIGNATED_DATA"
    /\ \E f \in Faults(sync_data(Connect(prod, 0), test)) :
        \E c \in {sync_data(Connect(prod, f), test)} :
            /\ prod' = c.db
            /\ calls' = Append(calls, Call("sync_data", <<>>, prod, c))
            /\ pc' = NextPhase(c, "DONE")
    /\ UNCHANGED test

Next == SyncSchema \/ SyncReferenceTables \/ SyncData

Spec == Init /\ [][Next]_vars

\* A step of the run: a phase returns or raises, and pc moves on.  Every
\* step of Next is one, and one is possible exactly when Next is.
Advance ==
    /\ pc \in Range(Phases)
    /\ pc' \in (Range(Phases) \cup {"DONE", "ABORTED"}) \ {pc}

\* the process runs synchronize to its end: a phase that can start does
FairSpec == Spec /\ WF_pc(Advance)

----------------------------------------------------------------------------
(* Properties.                                                             *)

\* the events of a log whose op is in ops, in order
Statements(log, ops) ==
    LET In(e) == e.op \in ops IN SelectSeq(log, In)

DDL == {"CREATE TABLE", "ADD COLUMN", "ALTER COLUMN TYPE"}

\* the events sync_schema may issue on the prod connection
SchemaEvents ==
    DDL \cup {"CURSOR", "SELECT table_name", "SELECT column_name", "COMMIT"}

IsSchemaCall(i) == i \in 1..Len(calls) /\ calls[i].op = "sync_schema"

\* C1 (schema idempotence): when a call of sync_schema has applied every
\* statement it issued, the next call of sync_schema, against the unchanged
\* test database, issues no CREATE TABLE, no ADD COLUMN and no ALTER COLUMN
\* TYPE.
C1_SchemaIdempotent ==
    \A i \in 1..(Len(calls) - 1) :
        (IsSchemaCall(i) /\ IsSchemaCall(i + 1) /\ ~calls[i].raised)
            => Statements(calls[i + 1].log, DDL) = <<>>

\* C4 (additivity): a call of sync_schema issues nothing but catalog
\* queries, CREATE TABLE, ADD COLUMN, ALTER COLUMN TYPE and commits; a table
\* only prod has is afterwards exactly as it was, and a column only prod has
\* is still there with the same type.
C4_Additive ==
    \A i \in 1..Len(calls) : IsSchemaCall(i) =>
        LET k == calls[i] IN
        /\ \A j \in 1..Len(k.log) : k.log[j].op \in SchemaEvents
        /\ \A t \in Range(TableNamesOf(k.before)) :
            /\ HasTable(After(i), t)
            /\ IF ~HasTable(test, t)
               THEN Table(After(i), t) = Table(k.before, t)
               ELSE \A col \in Range(Keys(Table(k.before, t).columns)) :
                      ~Has(Table(test, t).columns, col) =>
                        /\ Has(Table(After(i), t).columns, col)
                        /\ Item(Table(After(i), t).columns, col)
                            = Item(Table(k.before, t).columns, col)

\* a call of sync_schema that changed a table of a prod database holding a
\* table of its own and, in a common table, a column of its own
C4_Witness ==
    \E i \in 1..Len(calls) :
        /\ IsSchemaCall(i)
        /\ ~calls[i].raised
        /\ Statements(calls[i].log, DDL) # <<>>
        /\ \E t \in Range(TableNamesOf(calls[i].before)) : ~HasTable(test, t)
        /\ \E t \in Range(TableNamesOf(calls[i].before)) :
            /\ HasTable(test, t)
            /\ \E col \in Range(Keys(Table(calls[i].before, t).columns)) :
                ~Has(Table(test, t).columns, col)

\* C10 (missing tables): a call of sync_schema that raises nothing creates
\* exactly the tables test has and prod lacks, one CREATE TABLE each, each
\* with the columns of the test table; a table both have gets no CREATE
\* TABLE and one column comparison; and when the common tables have the
\* same columns on both sides no ADD COLUMN or ALTER COLUMN TYPE is issued.
C10_MissingTablesCreated ==
    \A i \in 1..Len(calls) : (IsSchemaCall(i) /\ ~calls[i].raised) =>
        LET k == calls[i]
            missing == MissingTables(_get_tables(test), _get_tables(k.before))
            common == CommonTables(_get_tables(test), _get_tables(k.before))
            creates == Statements(k.log, {"CREATE TABLE"})
            compares == Statements(k.log, {"SELECT column_name"})
        IN  /\ [j \in 1..Len(creates) |-> creates[j].table] = missing
            /\ \A t \in Range(missing) :
                /\ HasTable(After(i), t)
                /\ Table(After(i), t).columns = Table(test, t).columns
            /\ [j \in 1..Len(compares) |-> compares[j].table] = common
            /\ (\A t \in Range(common) :
                    Table(k.before, t).columns = Table(test, t).columns)
                => Statements(k.log, {"ADD COLUMN", "ALTER COLUMN TYPE"}) = <<>>

IsCall(i, name) == i \in 1..Len(calls) /\ calls[i].op = name

\* C7 (insert_records): called with no record it issues nothing (no
\* cursor, no statement, no commit); called with n records it opens one
\* cursor and, when no statement is rejected, issues n INSERTs, the j-th
\* naming the j-th record's fields in their order with its values bound in
\* the same order, and then one commit; when a statement is rejected the
\* INSERTs issued are those of the first records, and there is no commit.
C7_InsertStatements ==
    \A i \in 1..Len(calls) : IsCall(i, "insert_records") =>
        LET records == calls[i].args
            log == calls[i].log
            n == Len(records)
            IsInsertOf(e, record) ==
                e = [op |-> "INSERT", table |-> "my_table",
                     columns |-> [j \in 1..Len(record) |-> record[j][1]],
                     values |-> [j \in 1..Len(record) |-> record[j][2]]]
        IN  IF n = 0 THEN log = <<>> /\ ~calls[i].raised
            ELSE /\ Len(log) >= 2
                 /\ log[1] = [op |-> "CURSOR"]
                 /\ IF calls[i].raised
                    THEN /\ Len(log) <= n + 1
                         /\ \A j \in 2..Len(log) : IsInsertOf(log[j], records[j - 1])
                    ELSE /\ Len(log) = n + 2
                         /\ \A j \in 1..n : IsInsertOf(log[j + 1], records[j])
                         /\ log[n + 2] = [op |-> "COMMIT"]

\* insert_records has returned from two records with different keys
C7_Witness ==
    \E i \in 1..Len(calls) :
        /\ IsCall(i, "insert_records")
        /\ ~calls[i].raised
        /\ Len(calls[i].args) = 2
        /\ Keys(calls[i].args[1]) # Keys(calls[i].args[2])
        /\ Len(prod[1].rows) = 2

\* The log of a call of update_records that raised nothing, when the
\* records that get an UPDATE are those that satisfy Selected: one cursor,
\* the UPDATEs of the selected records in list order, each setting every
\* field but id in the record's order and binding those values and then the
\* id, and one commit.
UpdateLogIs(i, Selected(_)) ==
    LET records == calls[i].args
        log == calls[i].log
        chosen == SelectSeq(records, Selected)
        n == Len(chosen)
        IsUpdateOf(e, record) ==
            LET others == {j \in 1..Len(record) : record[j][1] # "id"}
                kth(k) == CHOOSE j \in others :
                            Cardinality({l \in others : l < j}) = k - 1
            IN  /\ e.op = "UPDATE"
                /\ e.table = "my_table"
                /\ e.where = "id"
                /\ e.set = [k \in 1..Cardinality(others) |-> record[kth(k)][1]]
                /\ e.values = [k \in 1..(Cardinality(others) + 1) |->
                                IF k <= Cardinality(others)
                                THEN record[kth(k)][2]
                                ELSE Item(record, "id")]
    IN  /\ Len(log) = n + 2
        /\ log[1] = [op |-> "CURSOR"]
        /\ \A j \in 1..n : IsUpdateOf(log[j + 1], chosen[j])
        /\ log[n + 2] = [op |-> "COMMIT"]

\* C8 as claimed (update_records): called with a non-empty list, and no
\* statement rejected, it issues one UPDATE for each record that has 'id',
\* and one commit after them.
C8_UpdatePerRecordWithId ==
    \A i \in 1..Len(calls) :
        (IsCall(i, "update_records") /\ calls[i].args # <<>> /\ ~calls[i].raised) =>
            LET WithId(record) == Has(record, "id") IN UpdateLogIs(i, WithId)

\* C8 as amended: one UPDATE for each record that has 'id' and at least one
\* other field; a record without 'id', or with nothing but 'id', gets none.
C8_UpdateStatements ==
    \A i \in 1..Len(calls) :
        (IsCall(i, "update_records") /\ calls[i].args # <<>> /\ ~calls[i].raised) =>
            LET WithIdAndField(record) ==
                    Has(record, "id") /\ \E j \in 1..Len(record) : record[j][1] # "id"
            IN  UpdateLogIs(i, WithIdAndField)

\* update_records has returned from a list holding a record that gets no
\* UPDATE and a record whose UPDATE sets two fields
C8_Witness ==
    \E i \in 1..Len(calls) :
        /\ IsCall(i, "update_records")
        /\ ~calls[i].raised
        /\ \E j \in 1..Len(calls[i].args) : ~Has(calls[i].args[j], "id")
        /\ \E j \in 1..Len(calls[i].log) :
            calls[i].log[j].op = "UPDATE" /\ Len(calls[i].log[j].set) = 2

IsDataCall(i) ==
    i \in 1..Len(calls) /\ calls[i].op \in {"sync_reference_tables", "sync_data"}

\* call i loaded both sides of its table and computed a plan
HasPlan(i) == IsDataCall(i) /\ calls[i].plans # <<>>

PlanOf(i) == calls[i].plans[1]

\* the records of the table of call i: in test, in prod before and after it
SourceOf(i) == load_reference_data(test, PlanOf(i).table)

TargetBefore(i) == load_reference_data(calls[i].before, PlanOf(i).table)

TargetAfter(i) == load_reference_data(After(i), PlanOf(i).table)

SameId(r, p) == Has(r, "id") /\ Has(p, "id") /\ Item(r, "id") = Item(p, "id")

\* C2 as claimed (convergence): after a reconciliation in which no
\* statement was rejected, prod holds for every test record with an id a
\* record with that id and with the test record's value in every field of
\* the test record.
C2_Convergence ==
    \A i \in 1..Len(calls) : (HasPlan(i) /\ ~calls[i].raised) =>
        LET target == Range(TargetAfter(i)) IN
        \A r \in Range(SourceOf(i)) : Has(r, "id") =>
            \E p \in target :
                /\ SameId(r, p)
                /\ \A j \in 1..Len(r) : Has(p, r[j][1]) /\ Item(p, r[j][1]) = r[j][2]

\* C2 as amended: ... with the test record's value in every field of the
\* test record that the prod record has too.
C2_ConvergenceOnCommonFields ==
    \A i \in 1..Len(calls) : (HasPlan(i) /\ ~calls[i].raised) =>
        LET target == Range(TargetAfter(i)) IN
        \A r \in Range(SourceOf(i)) : Has(r, "id") =>
            \E p \in target :
                /\ SameId(r, p)
                /\ \A j \in 1..Len(r) : Has(p, r[j][1]) => Item(p, r[j][1]) = r[j][2]

\* a reconciliation that inserted a record and updated another
C2_Witness ==
    \E i \in 1..Len(calls) :
        /\ HasPlan(i)
        /\ ~calls[i].raised
        /\ PlanOf(i).to_insert # <<>>
        /\ PlanOf(i).to_update # <<>>
        /\ Statements(calls[i].log, {"INSERT"}) # <<>>
        /\ Statements(calls[i].log, {"UPDATE"}) # <<>>

\* the events a data phase may issue on the prod connection
DataEvents == {"CURSOR", "SELECT *", "INSERT", "UPDATE", "COMMIT"}

\* C3 (no data loss): a data phase, whether or not a statement of it was
\* rejected, issues nothing but SELECT, INSERT, UPDATE and commits; every
\* table keeps its columns and its rows, in place; a prod row whose id no
\* test record has keeps every value, and a prod row whose id a test record
\* has keeps the value of every field that record does not name.
C3_NoDataLoss ==
    \A i \in 1..Len(calls) : IsDataCall(i) =>
        /\ \A j \in 1..Len(calls[i].log) :
            /\ calls[i].log[j].op \in DataEvents
            /\ calls[i].log[j].op = "UPDATE" => calls[i].log[j].where = "id"
        /\ \A t \in Range(TableNamesOf(calls[i].before)) :
            LET before == Table(calls[i].before, t)
                after == Table(After(i), t)
                source == Range(load_reference_data(test, t))
                columns == Keys(before.columns)
            IN  /\ HasTable(After(i), t)
                /\ after.columns = before.columns
                /\ Len(after.rows) >= Len(before.rows)
                /\ \A r \in 1..Len(before.rows) :
                    LET old == Zip(columns, before.rows[r])
                        new == Zip(columns, after.rows[r])
                        matched == {s \in source : SameId(s, old)}
                    IN  \A k \in Range(columns) :
                            (\A s \in matched : ~Has(s, k))
                                => Item(new, k) = Item(old, k)

\* a data phase updated a prod row that has a field of its own, in a table
\* that holds a row of its own
C3_Witness ==
    \E i \in 1..Len(calls) :
        /\ HasPlan(i)
        /\ ~calls[i].raised
        /\ Statements(calls[i].log, {"UPDATE"}) # <<>>
        /\ \E p \in Range(TargetBefore(i)) :
            /\ Has(p, "desc")
            /\ \E r \in Range(PlanOf(i).to_update) : SameId(r, p) /\ ~Has(r, "desc")
        /\ \E p \in Range(TargetBefore(i)) :
            \A r \in Range(SourceOf(i)) : ~SameId(r, p)

\* C5 (records without id): no record of the insert-set and none of the
\* update-set lacks 'id', and every record of the update-set has the id of
\* a prod record that has one.
C5_RecordsWithoutIdExcluded ==
    \A i \in 1..Len(calls) : HasPlan(i) =>
        /\ \A r \in Range(PlanOf(i).to_insert) : Has(r, "id")
        /\ \A r \in Range(PlanOf(i).to_update) :
            /\ Has(r, "id")
            /\ \E p \in Range(TargetBefore(i)) : SameId(r, p)

\* C6 (the plan): when every record of both sides has an id, the
\* insert-set is the test records whose id no prod record has, in test
\* order; the update-set is the test records whose id a prod record has
\* with another value in some field, other than id, that both records have
\* (so a field the prod record lacks does not count); no record is in both.
C6_Plan ==
    \A i \in 1..Len(calls) :
        (/\ HasPlan(i)
         /\ \A r \in Range(SourceOf(i)) \cup Range(TargetBefore(i)) : Has(r, "id")) =>
            LET source == SourceOf(i)
                target == Range(TargetBefore(i))
                Unmatched(r) == \A p \in target : ~SameId(r, p)
                Changed(r) ==
                    \E p \in target :
                        /\ SameId(r, p)
                        /\ \E j \in 1..Len(r) :
                            /\ r[j][1] # "id"
                            /\ \E l \in 1..Len(p) : p[l][1] = r[j][1] /\ p[l][2] # r[j][2]
            IN  /\ PlanOf(i).to_insert = SelectSeq(source, Unmatched)
                /\ PlanOf(i).to_update = SelectSeq(source, Changed)
                /\ Range(PlanOf(i).to_insert) \cap Range(PlanOf(i).to_update) = {}

\* a plan with a record to insert, a record to update and, in another
\* call of the same behaviour or this one, two test records
C6_Witness ==
    \E i \in 1..Len(calls) :
        /\ HasPlan(i)
        /\ \A r \in Range(SourceOf(i)) \cup Range(TargetBefore(i)) : Has(r, "id")
        /\ Len(PlanOf(i).to_insert) = 1
        /\ Len(PlanOf(i).to_update) = 1
        /\ PlanOf(i).to_update[1] = SourceOf(i)[1]
        /\ PlanOf(i).to_insert[1] = SourceOf(i)[2]

\* the phases started so far are the first ones, in order
PhasesInOrder ==
    /\ Len(calls) <= Len(PhaseCalls)
    /\ \A i \in 1..Len(calls) : calls[i].op = PhaseCalls[i]

\* C9 as claimed (phases): every run reaches DONE, whether or not a
\* statement failed in a phase.
C9_ReachesDone == <>(pc = "DONE")

\* C9 as amended: a run starts the phases SCHEMA, REFERENCE_DATA,
\* DESIGNATED_DATA in that order and ends; it ends DONE exactly when no
\* phase raised; a phase that raises ends the run ABORTED and no later
\* phase starts.
C9_PhasesUntilFailure ==
    /\ [](/\ PhasesInOrder
          /\ \A i \in 1..Len(calls) : calls[i].raised => i = Len(calls)
          /\ pc = "ABORTED" <=> \E i \in 1..Len(calls) : calls[i].raised
          /\ pc = "DONE" <=>
                /\ Len(calls) = Len(PhaseCalls)
                /\ \A i \in 1..Len(calls) : ~calls[i].raised
          /\ pc \notin {"DONE", "ABORTED"} => pc = Phases[Len(calls) + 1])
    /\ <>(pc \in {"DONE", "ABORTED"})

\* a run that a rejected statement ended in the reference-data phase
C9_Witness ==
    /\ pc = "ABORTED"
    /\ Len(calls) = 2
    /\ calls[2].raised
    /\ ~calls[1].raised

\* The events log[j..] run on a connection whose working state is db and
\* whose last commit left `committed`: the working state and the committed
\* one after them.  A statement the server rejects changes nothing.
RECURSIVE Replay(_, _, _, _)
Replay(db, committed, log, j) ==
    IF j > Len(log) THEN [db |-> db, committed |-> committed]
    ELSE IF log[j].op = "COMMIT" THEN Replay(db, db, log, j + 1)
    ELSE LET res == Apply(db, log[j])
         IN  Replay(IF res.ok THEN res.db ELSE db, committed, log, j + 1)

\* C11 (partial progress): when a statement fails in a phase of a run, it
\* is the last thing the phase issues on the prod connection, and prod is
\* afterwards what the statements issued before the phase's last commit
\* made of it: what was committed stays, what was not is rolled back, and
\* what the earlier phases left is what the failing phase started from.
C11_PartialProgress ==
    \A i \in 1..Len(calls) : calls[i].raised =>
        LET log == calls[i].log IN
        /\ i = Len(calls)
        /\ log # <<>>
        /\ log[Len(log)].op \notin {"CURSOR", "COMMIT"}
        /\ prod = Replay(calls[i].before, calls[i].before,
                         SubSeq(log, 1, Len(log) - 1), 1).committed
        /\ \A j \in 1..(i - 1) :
            After(j) = Replay(calls[j].before, calls[j].before, calls[j].log, 1).db

\* a run whose schema phase committed DDL and whose reference-data phase
\* failed in an UPDATE after the INSERT batch was committed
C11_Witness ==
    /\ Len(calls) = 2
    /\ Statements(calls[1].log, DDL) # <<>>
    /\ calls[2].raised
    /\ calls[2].log[Len(calls[2].log)].op = "UPDATE"
    /\ Statements(calls[2].log, {"INSERT"}) # <<>>
    /\ Statements(calls[2].log, {"COMMIT"}) # <<>>
    /\ prod # calls[2].before
    /\ calls[2].before # calls[1].before

\* every record call i read, on either side, has an id
AllWithId(i) ==
    \A r \in Range(SourceOf(i)) \cup Range(TargetBefore(i)) : Has(r, "id")

\* C12 (data idempotence): when every record of both sides has an id and
\* the plan of a reconciliation was applied with nothing rejected, the
\* insert-set and the update-set computed from the same test records and
\* the prod records as they now are are empty, and a later reconciliation
\* of the same table issues no INSERT and no UPDATE.
C12_DataIdempotent ==
    \A i \in 1..Len(calls) : (HasPlan(i) /\ ~calls[i].raised /\ AllWithId(i)) =>
        /\ calculate_inserts(SourceOf(i), TargetAfter(i)) = <<>>
        /\ calculate_updates(SourceOf(i), TargetAfter(i)) = <<>>
        /\ \A j \in (i + 1)..Len(calls) : calls[j].op = calls[i].op =>
            /\ HasPlan(j)
            /\ PlanOf(j).to_insert = <<>>
            /\ PlanOf(j).to_update = <<>>
            /\ Statements(calls[j].log, {"INSERT", "UPDATE"}) = <<>>

\* a reconciliation that inserted and updated, and was run again
C12_Witness ==
    \E i \in 1..Len(calls) :
        /\ HasPlan(i)
        /\ ~calls[i].raised
        /\ AllWithId(i)
        /\ Statements(calls[i].log, {"INSERT"}) # <<>>
        /\ Statements(calls[i].log, {"UPDATE"}) # <<>>
        /\ \E j \in (i + 1)..Len(calls) : calls[j].op = calls[i].op /\ ~calls[j].raised

ColumnDDL == {"ADD COLUMN", "ALTER COLUMN TYPE"}

\* the ADD COLUMN and ALTER COLUMN TYPE statements of call i on table t
ColumnStatements(i, t) ==
    LET OnTable(e) == e.op \in ColumnDDL /\ e.table = t
    IN  SelectSeq(calls[i].log, OnTable)

====
